---- MODULE Spec2Model ----
(***************************************************************************)
(* The scanner of tru-lang (main.cpp): a cursor over an immutable source   *)
(* buffer, advanced one character at a time by move_pos, with tokens       *)
(* appended by emit and fatal diagnostics rendered by failure.             *)
(*                                                                         *)
(* A character is a one-character string.  A pointer into the source is    *)
(* its offset from src.begin(); a string_view is an offset and a length.   *)
(***************************************************************************)
EXTENDS Integers, Sequences, FiniteSets, TLC

VARIABLES
    ndebug,      \* TRUE when the build defines NDEBUG (assert() compiled out)
    src,         \* scanner::src
    tokens,      \* scanner::tokens
    cur_line,    \* scanner::cur_line
    cur_column,  \* scanner::cur_column
    cursor,      \* scanner::cursor
    line_begin,  \* scanner::line_begin
    start,       \* the local `start` of scan_number/scan_string/scan_identifier
    pc,          \* position of the control flow inside scan()
    result,      \* how the call ended
    returned,    \* the span scan() returned, <<>> while nothing was returned
    diag,        \* what failure() printed to stderr, <<>> while nothing was
    oob,         \* TRUE once *cursor was read with cursor == src.end()
    rescans,     \* how many times scan() was called again on this scanner
    fresh,       \* source and result of the first call, once called again
    apc,         \* position of the control flow inside annotate()
    aresult,     \* how the call of annotate() ended
    a_lines,     \* annotate: a_lines
    tmp_buf,     \* annotate: tmp_buf, as the function from the 0-based indexes
                 \* that hold a mark to the mark; every other index of the
                 \* BufSize characters holds a space
    al,          \* annotate: 1-based index in a_lines of the line being printed
    idx,         \* annotate: idx of the next marker row, -1 when none is left
    out          \* what annotate() printed to stdout

scanner_vars == <<ndebug, src, tokens, cur_line, cur_column, cursor,
                  line_begin, start, pc, result, returned, diag, oob>>

rescan_vars == <<rescans, fresh>>

annotate_vars == <<apc, aresult, a_lines, tmp_buf, al, idx, out>>

vars == <<scanner_vars, rescan_vars, annotate_vars>>

-----------------------------------------------------------------------------
(* Bounds of the checked inputs *)

MaxLen == 4
MaxPieces == 3
MaxRescans == 1

(* size_t is unsigned: its arithmetic is modular.  The modulus is scaled to
   the integers of the model checker; every offset, line and column of the
   checked inputs is far below it. *)
SizeModulus == 2^30

nullptr == 0 - 1

-----------------------------------------------------------------------------
(* <cctype> predicates in the "C" locale, on ASCII characters *)

Lower == {"a","b","c","d","e","f","g","h","i","j","k","l","m",
          "n","o","p","q","r","s","t","u","v","w","x","y","z"}
Upper == {"A","B","C","D","E","F","G","H","I","J","K","L","M",
          "N","O","P","Q","R","S","T","U","V","W","X","Y","Z"}

isdigit(c) == c \in {"0","1","2","3","4","5","6","7","8","9"}
isalpha(c) == c \in Lower \cup Upper
isalnum(c) == isalpha(c) \/ isdigit(c)
isspace(c) == c \in {" ", "\t", "\n", "\r", "\f"}

(* the single-character cases of the switch in scan() *)
punct_type(c) ==
    CASE c = "=" -> "equal"
      [] c = ";" -> "semicolon"
      [] c = "." -> "dot"
      [] c = "," -> "comma"
      [] c = "(" -> "l_paren"
      [] c = ")" -> "r_paren"
      [] OTHER   -> "none"

-----------------------------------------------------------------------------
(* The inputs handed to scan() *)

Alphabet == {"=", ".", "\"", " ", "\n", "a", "1", "@"}

Strings(n) == UNION {[1..k -> Alphabet] : k \in 0..n}

Pieces == { <<"v","a","r">>, <<"c","o","n","s","t">>, <<"V","a","r">>,
            <<"v","a","r","i","a","b","l","e">>, <<"v","a","r","1">>,
            <<"c","o","n","s","t","a","n","t">>,
            <<" ">>, <<"1">>, <<".">>, <<"1","2">> }

RECURSIVE Concats(_)
Concats(n) ==
    IF n = 0 THEN {<< >>}
    ELSE LET shorter == Concats(n - 1)
         IN  shorter \cup {s \o p : s \in shorter, p \in Pieces}

(* the input of main() *)
example ==
    <<"c", "o", "n", "s", "t", " ", "l", "a", "n", "g", " ", "=", " ", "\"",
      "t", "r", "u", "\"", ";", "\n",
      "r", "u", "n", "t", "i", "m", "e", ".", "p", "r", "i", "n", "t", "(",
      "\"", "H", "e", "l", "l", "o", " ", "f", "r", "o", "m", " ", "{", "}",
      "\"", ",", " ", "l", "a", "n", "g", ")", ";", "\n",
      "v", "a", "r", " ", "n", "u", "m", " ", "=", " ",
      "1", "2", "3", "4", "5", ".", "6", "7", "8", "9", ";", "\n">>

Scenarios ==
    { example,
      <<"x", " ", "=", " ", "5", ";">>,
      <<"v", "a", "r", " ", "y", " ", "=", " ", "\"", "h", "i", "\"", ";">>,
      <<"1", "2", ".", "3", "4", ".", "5", "6">>,
      <<"\"", "u", "n", "t", "e", "r", "m", "i", "n", "a", "t", "e", "d">>,
      <<"@">>,
      <<"\"", "\"">>,
      <<"\"", "a", "\n", "b", "\"", ";", " ", "x">>,
      <<"a", "(", "1", ",", "2", ")", ";", "\n", "\t", "@", " ", "b">>,
      <<"v", "a", "r", " ", "V", "a", "r", " ", "v", "a", "r", "i", "a", "b", "l", "e", " ", "v", "a", "r", "1", " ", "c", "o", "n", "s", "t", " ", "c", "o", "n", "s", "t", "a", "n", "t">> }

Inputs == Strings(MaxLen) \cup Concats(MaxPieces) \cup Scenarios

(* what a read of *src.end() may yield when assert() is compiled out: the
   byte after the buffer is whatever the caller's memory holds there; one
   representative for each way the scanner can branch on it *)
OobBytes == {".", "\"", "7", "NUL"}

-----------------------------------------------------------------------------
(* scanner's private helpers *)

eof == cursor = Len(src)

cur == src[cursor + 1]

(* the values cur() can yield: the character under the cursor, or, at
   end-of-input with assert() compiled out, the byte after the buffer *)
cur_values == IF eof THEN OobBytes ELSE {cur}

(* assert(!eof()) of cur(), pos(), move_pos() and peek_next() *)
assert_not_eof == ndebug \/ ~eof

pos == cursor

(* line_begin is not moved to the new line *)
move_pos_stale_line_begin ==
    LET nl == src[cursor + 1] = "\n"
    IN  /\ cur_line'   = IF nl THEN (cur_line + 1) % SizeModulus ELSE cur_line
        /\ cur_column' = IF nl THEN 0 ELSE (cur_column + 1) % SizeModulus
        /\ cursor'     = cursor + 1
        /\ line_begin' = line_begin

(* the column keeps counting across a newline *)
move_pos_no_reset ==
    LET nl  == src[cursor + 1] = "\n"
        lb1 == IF nl THEN nullptr ELSE line_begin
    IN  /\ cur_line'   = IF nl THEN (cur_line + 1) % SizeModulus ELSE cur_line
        /\ cur_column' = (cur_column + 1) % SizeModulus
        /\ cursor'     = cursor + 1
        /\ line_begin' = IF lb1 = nullptr THEN cursor + 1 ELSE lb1

move_pos ==
    LET nl  == src[cursor + 1] = "\n"
        lb1 == IF nl THEN nullptr ELSE line_begin
    IN  /\ cur_line'   = IF nl THEN (cur_line + 1) % SizeModulus ELSE cur_line
        /\ cur_column' = IF nl THEN 0 ELSE (cur_column + 1) % SizeModulus
        /\ cursor'     = cursor + 1
        /\ line_begin' = IF lb1 = nullptr THEN cursor + 1 ELSE lb1

(* the token takes the column after its character *)
emit_char_after(t) ==
    Append(tokens, [type |-> t, off |-> pos, len |-> 1,
                    line |-> cur_line, column |-> cur_column + 1])

(* emit(token::types t) *)
emit_char(t) ==
    Append(tokens, [type |-> t, off |-> pos, len |-> 1,
                    line |-> cur_line, column |-> cur_column])

(* the token takes the column at emission time *)
emit_column_at_end(column, diff) == column

(* emit(token::types t, std::string_view lexeme), the lexeme being
   std::string_view(start, cursor - start) *)
emit_column(column, diff) == (column - diff) % SizeModulus

(* the lexeme is one character short *)
emit_lexeme_short(t) ==
    Append(tokens, [type |-> t, off |-> start, len |-> cursor - start - 1,
                    line |-> cur_line,
                    column |-> emit_column(cur_column, cursor - start)])

emit_lexeme(t) ==
    Append(tokens, [type |-> t, off |-> start, len |-> cursor - start,
                    line |-> cur_line,
                    column |-> emit_column(cur_column, cursor - start)])

eof_token == [type |-> "eof", off |-> nullptr, len |-> 0,
              line |-> cur_line, column |-> cur_column]

(* the text a token's lexeme views *)
Lexeme(t) == IF t.len = 0 THEN << >> ELSE SubSeq(src, t.off + 1, t.off + t.len)

RECURSIVE find_eol(_)
(* the line is cut at the cursor *)
find_eol_at_cursor(eol) == eol

find_eol(eol) ==
    IF eol # Len(src) /\ src[eol + 1] # "\n" THEN find_eol(eol + 1) ELSE eol

Spaces(n) == [i \in 1..n |-> " "]

(* failure(message): the three lines printed to stderr, then exit(1) *)
failure(message) ==
    /\ diag' = [line    |-> cur_line,
                column  |-> cur_column,
                message |-> message,
                text    |-> SubSeq(src, line_begin + 1, find_eol(cursor)),
                caret   |-> Spaces(cur_column) \o <<"^">>]
    /\ result' = "exit"
    /\ pc' = "done"

(* a failed assert(): abort() *)
abort ==
    /\ result' = "assert"
    /\ pc' = "done"

(* with assert() compiled out the cursor was moved beyond src.end(): eof()
   stays false from here on and every later read is outside the buffer *)
undefined ==
    /\ result' = "undefined"
    /\ pc' = "done"

(* a keyword is recognised as a prefix of the run *)
keyword_type_prefix(lexeme) ==
    IF Len(lexeme) >= 3 /\ SubSeq(lexeme, 1, 3) = <<"v","a","r">>
    THEN "kw_var"
    ELSE IF Len(lexeme) >= 5 /\ SubSeq(lexeme, 1, 5) = <<"c","o","n","s","t">>
    THEN "kw_const"
    ELSE "identifier"

keyword_type(lexeme) ==
    IF lexeme = <<"v","a","r">> THEN "kw_var"
    ELSE IF lexeme = <<"c","o","n","s","t">> THEN "kw_const"
    ELSE "identifier"

-----------------------------------------------------------------------------
(* The state after `auto s = scanner();` *)
Init ==
    /\ ndebug \in BOOLEAN
    /\ src = << >>
    /\ tokens = << >>
    /\ cur_line = 1
    /\ cur_column = 0
    /\ cursor = nullptr
    /\ line_begin = nullptr
    /\ start = nullptr
    /\ pc = "idle"
    /\ result = "none"
    /\ returned = << >>
    /\ diag = << >>
    /\ oob = FALSE
    /\ rescans = 0
    /\ fresh = << >>
    /\ apc = "idle"
    /\ aresult = "none"
    /\ a_lines = << >>
    /\ tmp_buf = << >>
    /\ al = 0
    /\ idx = 0 - 1
    /\ out = << >>

(* scan(input), up to the first test of the loop condition *)
scan ==
    /\ pc = "idle"
    /\ \E input \in Inputs : src' = input
    /\ cursor' = 0
    /\ line_begin' = 0
    /\ pc' = "main"
    /\ result' = "running"
    /\ UNCHANGED <<ndebug, tokens, cur_line, cur_column, start, returned,
                   diag, oob>>
    /\ UNCHANGED <<rescan_vars, annotate_vars>>

(* while (!eof()) left: the eof token and the return *)
scan_return ==
    /\ pc = "main"
    /\ eof
    /\ tokens' = Append(tokens, eof_token)
    /\ returned' = tokens'
    /\ result' = "returned"
    /\ pc' = "done"
    /\ UNCHANGED <<ndebug, src, cur_line, cur_column, cursor, line_begin,
                   start, diag, oob>>
    /\ UNCHANGED <<rescan_vars, annotate_vars>>

(* case '=': ';': '.': ',': '(': ')': emit(...); move_pos(); *)
scan_punct ==
    /\ pc = "main"
    /\ ~eof
    /\ punct_type(cur) # "none"
    /\ tokens' = emit_char(punct_type(cur))
    /\ move_pos
    /\ UNCHANGED <<ndebug, src, start, pc, result, returned, diag, oob>>
    /\ UNCHANGED <<rescan_vars, annotate_vars>>

(* default: if (isspace(cur())) move_pos(); *)
scan_space ==
    /\ pc = "main"
    /\ ~eof
    /\ isspace(cur)
    /\ move_pos
    /\ UNCHANGED <<ndebug, src, tokens, start, pc, result, returned, diag, oob>>
    /\ UNCHANGED <<rescan_vars, annotate_vars>>

(* default: else failure("Unhandled text sequence") *)
scan_unhandled ==
    /\ pc = "main"
    /\ ~eof
    /\ punct_type(cur) = "none" /\ cur # "\""
    /\ ~isspace(cur) /\ ~isalpha(cur) /\ ~isdigit(cur)
    /\ failure("Unhandled text sequence")
    /\ UNCHANGED <<ndebug, src, tokens, cur_line, cur_column, cursor,
                   line_begin, start, returned, oob>>
    /\ UNCHANGED <<rescan_vars, annotate_vars>>

(* scan_string(): start = cursor and the first move_pos() of the do-while *)
scan_string_begin ==
    /\ pc = "main"
    /\ ~eof
    /\ cur = "\""
    /\ start' = cursor
    /\ move_pos
    /\ pc' = "string"
    /\ UNCHANGED <<ndebug, src, tokens, result, returned, diag, oob>>
    /\ UNCHANGED <<rescan_vars, annotate_vars>>

(* scan_string(): one more iteration of do move_pos() while (...) *)
scan_string_step ==
    /\ pc = "string"
    /\ ~eof /\ cur # "\""
    /\ move_pos
    /\ UNCHANGED <<ndebug, src, tokens, start, pc, result, returned, diag, oob>>
    /\ UNCHANGED <<rescan_vars, annotate_vars>>

(* scan_string(): if (cur() == '"') move_pos(); else failure(...) *)
scan_string_close ==
    /\ pc = "string"
    /\ ~(~eof /\ cur # "\"")
    /\ IF ~assert_not_eof
       THEN /\ abort
            /\ UNCHANGED <<ndebug, src, tokens, cur_line, cur_column, cursor,
                           line_begin, start, returned, diag, oob>>
       ELSE \E c \in cur_values :
              /\ oob' = (oob \/ eof)
              /\ IF c = "\""
                 THEN IF eof
                      THEN /\ undefined
                           /\ UNCHANGED <<cur_line, cur_column, cursor,
                                          line_begin, diag>>
                      ELSE /\ move_pos
                           /\ pc' = "string_emit"
                           /\ UNCHANGED <<result, diag>>
                 ELSE /\ failure("Unterminated string reached end of file")
                      /\ UNCHANGED <<cur_line, cur_column, cursor, line_begin>>
              /\ UNCHANGED <<ndebug, src, tokens, start, returned>>
    /\ UNCHANGED <<rescan_vars, annotate_vars>>

(* the lexeme is the text between the quotes *)
scan_string_emit_inner ==
    /\ pc = "string_emit"
    /\ tokens' = Append(tokens, [type |-> "string_literal", off |-> start + 1,
                                 len |-> cursor - start - 2, line |-> cur_line,
                                 column |-> emit_column(cur_column,
                                                        cursor - start - 1)])
    /\ pc' = "main"
    /\ UNCHANGED <<ndebug, src, cur_line, cur_column, cursor, line_begin,
                   start, result, returned, diag, oob>>
    /\ UNCHANGED <<rescan_vars, annotate_vars>>

(* scan_string(): emit(token::types::string_literal, lexeme) *)
scan_string_emit ==
    /\ pc = "string_emit"
    /\ tokens' = emit_lexeme("string_literal")
    /\ pc' = "main"
    /\ UNCHANGED <<ndebug, src, cur_line, cur_column, cursor, line_begin,
                   start, result, returned, diag, oob>>
    /\ UNCHANGED <<rescan_vars, annotate_vars>>

(* scan_identifier(): start = cursor and the first move_pos() *)
scan_identifier_begin ==
    /\ pc = "main"
    /\ ~eof
    /\ isalpha(cur)
    /\ start' = cursor
    /\ move_pos
    /\ pc' = "identifier"
    /\ UNCHANGED <<ndebug, src, tokens, result, returned, diag, oob>>
    /\ UNCHANGED <<rescan_vars, annotate_vars>>

(* scan_identifier(): one more iteration of the do-while *)
scan_identifier_step ==
    /\ pc = "identifier"
    /\ ~eof /\ isalnum(cur)
    /\ move_pos
    /\ UNCHANGED <<ndebug, src, tokens, start, pc, result, returned, diag, oob>>
    /\ UNCHANGED <<rescan_vars, annotate_vars>>

(* scan_identifier(): the keyword test and the emit *)
scan_identifier_emit ==
    /\ pc = "identifier"
    /\ ~(~eof /\ isalnum(cur))
    /\ tokens' = emit_lexeme(keyword_type(SubSeq(src, start + 1, cursor)))
    /\ pc' = "main"
    /\ UNCHANGED <<ndebug, src, cur_line, cur_column, cursor, line_begin,
                   start, result, returned, diag, oob>>
    /\ UNCHANGED <<rescan_vars, annotate_vars>>

(* scan_number(): start = cursor and the first move_pos() *)
scan_number_begin ==
    /\ pc = "main"
    /\ ~eof
    /\ isdigit(cur)
    /\ start' = cursor
    /\ move_pos
    /\ pc' = "number"
    /\ UNCHANGED <<ndebug, src, tokens, result, returned, diag, oob>>
    /\ UNCHANGED <<rescan_vars, annotate_vars>>

(* scan_number(): one more iteration of the do-while *)
scan_number_step ==
    /\ pc = "number"
    /\ ~eof /\ isdigit(cur)
    /\ move_pos
    /\ UNCHANGED <<ndebug, src, tokens, start, pc, result, returned, diag, oob>>
    /\ UNCHANGED <<rescan_vars, annotate_vars>>

(* scan_number(): if (cur() == '.') move_pos(); and, without a dot, the
   emit *)
scan_number_dot ==
    /\ pc = "number"
    /\ ~(~eof /\ isdigit(cur))
    /\ IF ~assert_not_eof
       THEN /\ abort
            /\ UNCHANGED <<ndebug, src, tokens, cur_line, cur_column, cursor,
                           line_begin, start, returned, diag, oob>>
       ELSE \E c \in cur_values :
              /\ oob' = (oob \/ eof)
              /\ IF c = "."
                 THEN IF eof
                      THEN /\ undefined
                           /\ UNCHANGED <<tokens, cur_line, cur_column,
                                          cursor, line_begin>>
                      ELSE /\ move_pos
                           /\ pc' = "fraction"
                           /\ UNCHANGED <<tokens, result>>
                 ELSE /\ tokens' = emit_lexeme("number_literal")
                      /\ pc' = "main"
                      /\ UNCHANGED <<cur_line, cur_column, cursor,
                                     line_begin, result>>
              /\ UNCHANGED <<ndebug, src, start, returned, diag>>
    /\ UNCHANGED <<rescan_vars, annotate_vars>>

(* scan_number(): while (std::isdigit(cur())) move_pos(); and the emit *)
scan_number_fraction ==
    /\ pc = "fraction"
    /\ IF ~assert_not_eof
       THEN /\ abort
            /\ UNCHANGED <<ndebug, src, tokens, cur_line, cur_column, cursor,
                           line_begin, start, returned, diag, oob>>
       ELSE \E c \in cur_values :
              /\ oob' = (oob \/ eof)
              /\ IF isdigit(c)
                 THEN IF eof
                      THEN /\ undefined
                           /\ UNCHANGED <<tokens, cur_line, cur_column,
                                          cursor, line_begin>>
                      ELSE /\ move_pos
                           /\ UNCHANGED <<tokens, pc, result>>
                 ELSE /\ tokens' = emit_lexeme("number_literal")
                      /\ pc' = "main"
                      /\ UNCHANGED <<cur_line, cur_column, cursor,
                                     line_begin, result>>
              /\ UNCHANGED <<ndebug, src, start, returned, diag>>
    /\ UNCHANGED <<rescan_vars, annotate_vars>>

Next ==
    \/ scan
    \/ scan_return
    \/ scan_punct
    \/ scan_space
    \/ scan_unhandled
    \/ scan_string_begin
    \/ scan_string_step
    \/ scan_string_close
    \/ scan_string_emit
    \/ scan_identifier_begin
    \/ scan_identifier_step
    \/ scan_identifier_emit
    \/ scan_number_begin
    \/ scan_number_step
    \/ scan_number_dot
    \/ scan_number_fraction

Spec == Init /\ [][Next]_vars

-----------------------------------------------------------------------------
(* scan(input) called again on a scanner whose earlier call returned: the
   same three assignments; tokens, cur_line and cur_column keep what the
   earlier call left in them *)
scan_again ==
    /\ pc = "done" /\ result = "returned"
    /\ rescans < MaxRescans
    /\ \E input \in {src, << >>, <<"x">>} : src' = input
    /\ cursor' = 0
    /\ line_begin' = 0
    /\ pc' = "main"
    /\ result' = "running"
    /\ rescans' = rescans + 1
    /\ fresh' = IF rescans = 0 THEN [src |-> src, returned |-> returned]
                ELSE fresh
    /\ UNCHANGED <<ndebug, tokens, cur_line, cur_column, start, returned,
                   diag, oob>>
    /\ UNCHANGED annotate_vars

NextRescan == Next \/ scan_again

SpecRescan == Init /\ [][NextRescan]_vars

-----------------------------------------------------------------------------
(* annotate(result, source), called by main() with the span scan() returned
   and the source it scanned *)

BufSize == 1024

RECURSIVE next_newline(_, _)
(* offset of the first newline of s at or after offset from, Len(s) if none *)
next_newline(s, from) ==
    IF from = Len(s) \/ s[from + 1] = "\n" THEN from
    ELSE next_newline(s, from + 1)

RECURSIVE split_from(_, _)
split_from(s, from) ==
    LET e == next_newline(s, from)
    IN  IF e = Len(s) THEN << SubSeq(s, from + 1, e) >>
        ELSE << SubSeq(s, from + 1, e) >> \o split_from(s, e + 1)

(* source | views::split('\n'): an empty range splits into no subrange at
   all, a range ending in the delimiter ends in an empty subrange *)
split(s) == IF s = << >> THEN << >> ELSE split_from(s, 0)

(* the transform with the counter, collected into the vector *)
annotated_lines(s) ==
    [k \in 1..Len(split(s)) |-> [line_no |-> k, line |-> split(s)[k],
                                 tokens |-> << >>]]

(* a_lines.at(t.line - 1) throws std::out_of_range *)
at_throws(lines, t) == (t.line - 1) % SizeModulus >= Len(lines)

RECURSIVE push_back_all(_, _)
(* the bucketing loop, up to the token for which at() throws *)
push_back_all(lines, toks) ==
    IF toks = << >> \/ at_throws(lines, Head(toks)) THEN lines
    ELSE push_back_all(
             [lines EXCEPT ![Head(toks).line].tokens = Append(@, Head(toks))],
             Tail(toks))

(* std::string(space_buf.data(), space_buf.size()): no mark anywhere *)
spaces_only == [i \in {} |-> " "]

(* buf[i] *)
char_at(buf, i) == IF i \in DOMAIN buf THEN buf[i] ELSE " "

(* buf[i] = c, c a mark *)
store(buf, i, c) == [k \in (DOMAIN buf) \cup {i} |-> IF k = i THEN c ELSE buf[k]]

(* std::string_view(buf.data(), n) *)
view(buf, n) == [k \in 1..n |-> char_at(buf, k - 1)]

(* the buffer is left as it is *)
fill_n_nothing(buf, n) == buf

(* std::fill_n(tmp_buf.begin(), n, ' ') *)
fill_n(buf, n) == [k \in {i \in DOMAIN buf : i >= n} |-> buf[k]]

RECURSIVE put_bars(_, _, _)
(* for (i = 0; i < upto; ++i) buf[toks.at(i).column] = '|' *)
put_bars(buf, toks, upto) ==
    IF upto = 0 THEN buf
    ELSE store(put_bars(buf, toks, upto - 1), toks[upto].column, "|")

(* the accesses of one marker row stay inside tmp_buf *)
row_in_bounds(line, toks, i) ==
    /\ Len(line) <= BufSize
    /\ \A k \in 1..(i + 1) : toks[k].column < BufSize

(* lines 289-294 *)
annotate_lines ==
    /\ pc = "done" /\ result = "returned"
    /\ apc = "idle"
    /\ a_lines' = annotated_lines(src)
    /\ apc' = "bucket"
    /\ aresult' = "running"
    /\ UNCHANGED <<tmp_buf, al, idx, out>>
    /\ UNCHANGED <<scanner_vars, rescan_vars>>

(* lines 296-300: the bucketing loop and the construction of tmp_buf *)
annotate_bucket ==
    /\ apc = "bucket"
    /\ a_lines' = push_back_all(a_lines, returned)
    /\ IF \E i \in 1..Len(returned) : at_throws(a_lines, returned[i])
       THEN /\ aresult' = "out_of_range"
            /\ apc' = "done"
            /\ UNCHANGED tmp_buf
       ELSE /\ tmp_buf' = spaces_only
            /\ apc' = "print"
            /\ UNCHANGED aresult
    /\ UNCHANGED <<al, idx, out>>
    /\ UNCHANGED <<scanner_vars, rescan_vars>>

(* the next iteration of for (auto& al: a_lines): the line's header *)
annotate_line ==
    /\ apc = "print"
    /\ idx = 0 - 1
    /\ al < Len(a_lines)
    /\ al' = al + 1
    /\ out' = Append(out, [kind |-> "line", line_no |-> a_lines[al + 1].line_no,
                           text |-> a_lines[al + 1].line])
    /\ idx' = Len(a_lines[al + 1].tokens) - 1
    /\ UNCHANGED <<apc, aresult, a_lines, tmp_buf>>
    /\ UNCHANGED <<scanner_vars, rescan_vars>>

(* one iteration of the loop over idx: one marker row *)
annotate_row ==
    /\ apc = "print"
    /\ idx >= 0
    /\ LET line == a_lines[al].line
           toks == a_lines[al].tokens
           target_tok == toks[idx + 1]
       IN  IF row_in_bounds(line, toks, idx)
           THEN LET marked == store(put_bars(fill_n(tmp_buf, Len(line)),
                                             toks, idx),
                                    target_tok.column, "^")
                IN  /\ tmp_buf' = marked
                    /\ out' = Append(out,
                          [kind |-> "row",
                           text |-> view(marked, target_tok.column + 1),
                           name |-> target_tok.type])
                    /\ idx' = idx - 1
                    /\ UNCHANGED <<apc, aresult>>
           ELSE /\ aresult' = "overflow"
                /\ apc' = "done"
                /\ UNCHANGED <<tmp_buf, out, idx>>
    /\ UNCHANGED <<a_lines, al>>
    /\ UNCHANGED <<scanner_vars, rescan_vars>>

(* the loop over a_lines is left: annotate returns *)
annotate_end ==
    /\ apc = "print"
    /\ idx = 0 - 1
    /\ al = Len(a_lines)
    /\ apc' = "done"
    /\ aresult' = "done"
    /\ UNCHANGED <<a_lines, tmp_buf, al, idx, out>>
    /\ UNCHANGED <<scanner_vars, rescan_vars>>

(* main(): scan(example), then annotate(result, example) *)
NextMain ==
    \/ Next
    \/ annotate_lines
    \/ annotate_bucket
    \/ annotate_line
    \/ annotate_row
    \/ annotate_end

SpecMain == Init /\ [][NextMain]_vars

-----------------------------------------------------------------------------
(* Positions in the source, counted from the text alone *)

RECURSIVE CountBefore(_, _)
(* how many of the first n characters of src are c *)
CountBefore(c, n) ==
    IF n = 0 THEN 0
    ELSE CountBefore(c, n - 1) + (IF src[n] = c THEN 1 ELSE 0)

(* 1-based line of the character at offset off *)
LineOf(off) == 1 + CountBefore("\n", off)

RECURSIVE LineStart(_)
(* offset just after the last newline before offset off, 0 if none *)
LineStart(off) ==
    IF off = 0 THEN 0
    ELSE IF src[off] = "\n" THEN off ELSE LineStart(off - 1)

(* 0-based column of the character at offset off *)
ColOf(off) == off - LineStart(off)

RECURSIVE LineEnd(_)
(* offset of the first newline at or after offset off, Len(src) if none *)
LineEnd(off) ==
    IF off = Len(src) THEN off
    ELSE IF src[off + 1] = "\n" THEN off ELSE LineEnd(off + 1)

(* the text, without its newline, of the line the offset off lies on *)
LineTextAt(off) == SubSeq(src, LineStart(off) + 1, LineEnd(off))

(* the character at offset off lies after an opening quote that is not yet
   closed: it is part of a string literal or is its closing quote *)
InsideString(off) == CountBefore("\"", off) % 2 = 1

(* a character of none of the lexical classes *)
Unrecognized(c) ==
    /\ c \notin {"=", ";", ".", ",", "(", ")", "\""}
    /\ ~isspace(c) /\ ~isalpha(c) /\ ~isdigit(c)

BadOffsets ==
    {off \in 0..(Len(src) - 1) : Unrecognized(src[off + 1]) /\ ~InsideString(off)}

FirstBad == CHOOSE off \in BadOffsets : \A o \in BadOffsets : off <= o

MsgUnterminated == "Unterminated string reached end of file"
MsgUnhandled == "Unhandled text sequence"

-----------------------------------------------------------------------------
(* C1: every call of scan on a fresh scanner ends either by returning a
   token sequence whose last element is the only eof token, or through
   failure() with one of the two messages; no assertion fails and the
   character at end-of-input is never read. *)
C1_ScanReturnsOrFails ==
    /\ result \notin {"assert", "undefined"}
    /\ ~oob
    /\ pc = "done" =>
         \/ /\ result = "returned"
            /\ returned # << >>
            /\ returned[Len(returned)].type = "eof"
            /\ \A i \in 1..(Len(returned) - 1) : returned[i].type # "eof"
            /\ diag = << >>
         \/ /\ result = "exit"
            /\ diag.message \in {MsgUnterminated, MsgUnhandled}
            /\ returned = << >>

(* C2: when string-scanning, started at an opening quote, reaches
   end-of-input before a closing quote, scan ends through
   failure("Unterminated string reached end of file") reporting the line of
   the end of input, and returns no token sequence. *)
C2_UnterminatedStringFails ==
    ( /\ pc = "done"
      /\ start # nullptr
      /\ src[start + 1] = "\""
      /\ \A i \in (start + 2)..Len(src) : src[i] # "\"" )
    => /\ result = "exit"
       /\ diag.message = MsgUnterminated
       /\ diag.line = LineOf(Len(src))
       /\ returned = << >>

(* C3: when the source has a character of no lexical class outside a string
   literal, scan ends through failure("Unhandled text sequence") reporting
   the line and column of the first such character, printing the full text
   of that line and a caret row with the caret under that character, and
   returns no tokens. *)
C3_UnhandledCharacterReported ==
    (pc = "done" /\ BadOffsets # {}) =>
        /\ result = "exit"
        /\ diag.message = MsgUnhandled
        /\ diag.line = LineOf(FirstBad)
        /\ diag.column = ColOf(FirstBad)
        /\ diag.text = LineTextAt(FirstBad)
        /\ diag.caret = Spaces(ColOf(FirstBad)) \o <<"^">>
        /\ diag.text[Len(diag.caret)] = src[FirstBad + 1]
        /\ returned = << >>

(* an unrecognized character that is not at the start of its line, on a
   later line than the first, with text after it on the same line *)
C3_Witness ==
    /\ pc = "done" /\ BadOffsets # {}
    /\ result = "exit"
    /\ diag.line > 1 /\ diag.column > 0
    /\ Len(diag.text) > diag.column + 1

-----------------------------------------------------------------------------
(* Helpers of the statements about the returned tokens *)

NonEof == 1..(Len(returned) - 1)

(* the offsets of the source a token's lexeme covers *)
Span(t) == t.off..(t.off + t.len - 1)

LexLess(l1, c1, l2, c2) == l1 < l2 \/ (l1 = l2 /\ c1 <= c2)

(* offset at which the line numbered n starts; n is at most the number of
   lines of the source *)
LineStartOf(n) ==
    CHOOSE off \in 0..Len(src) :
        /\ LineOf(off) = n
        /\ \A o \in 0..Len(src) : LineOf(o) = n => off <= o

(* length of the line numbered n, its newline not counted *)
LineLength(n) == LineEnd(LineStartOf(n)) - LineStartOf(n)

NoNewlineInString ==
    \A off \in 0..(Len(src) - 1) : src[off + 1] = "\n" => ~InsideString(off)

(* C4: on success the lexemes of the non-eof tokens are, in emission order,
   non-overlapping spans of the source at strictly increasing offsets, and
   every source character outside all of them is whitespace. *)
C4_LexemesCoverSource ==
    result = "returned" =>
        /\ \A i \in NonEof :
              /\ returned[i].len >= 1
              /\ returned[i].off >= 0
              /\ returned[i].off + returned[i].len <= Len(src)
        /\ \A i \in NonEof : \A j \in NonEof :
              i < j => returned[i].off + returned[i].len <= returned[j].off
        /\ \A off \in 0..(Len(src) - 1) :
              (\A i \in NonEof : off \notin Span(returned[i]))
                  => isspace(src[off + 1])

(* a success with adjacent tokens, a lexeme of several characters and
   whitespace between tokens *)
C4_Witness ==
    /\ result = "returned"
    /\ Len(returned) >= 4
    /\ \E i \in NonEof : returned[i].len >= 2
    /\ \E i \in NonEof : i + 1 \in NonEof
            /\ returned[i].off + returned[i].len = returned[i + 1].off
    /\ \E off \in 0..(Len(src) - 1) : \A i \in NonEof : off \notin Span(returned[i])

(* C5: on success the (line, column) pairs of the returned tokens are
   non-decreasing, in lexicographic order, along the emission order. *)
C5_PositionsNonDecreasing ==
    result = "returned" =>
        \A i \in 1..Len(returned) : \A j \in 1..Len(returned) :
            i < j => LexLess(returned[i].line, returned[i].column,
                             returned[j].line, returned[j].column)

(* C6: on success the last token is an eof token with empty lexeme, its line
   1 plus the number of newlines of the source and its column the number of
   characters after the last newline; the empty input yields exactly the eof
   token at line 1, column 0. *)
C6_EofTokenPosition ==
    result = "returned" =>
        /\ returned # << >>
        /\ LET last == returned[Len(returned)]
           IN  /\ last.type = "eof"
               /\ last.len = 0
               /\ Lexeme(last) = << >>
               /\ last.line = 1 + CountBefore("\n", Len(src))
               /\ last.column = Len(src) - LineStart(Len(src))
        /\ src = << >> =>
              returned = << [type |-> "eof", off |-> nullptr, len |-> 0,
                             line |-> 1, column |-> 0] >>

(* a success on a source of several lines whose last line is not empty *)
C6_Witness ==
    /\ result = "returned"
    /\ returned[Len(returned)].line > 1
    /\ returned[Len(returned)].column > 0
    /\ Len(returned) >= 2

(* C7: every identifier, keyword, number-literal and string-literal token
   whose lexeme holds no newline records the line and column of the
   lexeme's first character, which is the column after the lexeme minus its
   length; `x = 5;` yields identifier (1,0), equal (1,2), number_literal
   (1,4), semicolon (1,5), eof (1,6). *)
C7_TokenAtLexemeStart ==
    /\ \A i \in 1..Len(tokens) :
          LET t == tokens[i]
          IN  ( /\ t.type \in {"identifier", "kw_var", "kw_const",
                               "number_literal", "string_literal"}
                /\ \A k \in 1..t.len : Lexeme(t)[k] # "\n" )
              => /\ t.line = LineOf(t.off)
                 /\ t.column = ColOf(t.off)
                 /\ t.column = ColOf(t.off + t.len) - t.len
    /\ (src = <<"x", " ", "=", " ", "5", ";">> /\ pc = "done") =>
          /\ result = "returned"
          /\ [i \in 1..Len(returned) |->
                 <<returned[i].type, Lexeme(returned[i]),
                   returned[i].line, returned[i].column>>]
             = << <<"identifier", <<"x">>, 1, 0>>,
                  <<"equal", <<"=">>, 1, 2>>,
                  <<"number_literal", <<"5">>, 1, 4>>,
                  <<"semicolon", <<";">>, 1, 5>>,
                  <<"eof", << >>, 1, 6>> >>

(* a lexeme of several characters that starts after the first column of a
   line after the first *)
C7_Witness ==
    \E i \in 1..Len(tokens) :
        /\ tokens[i].type \in {"identifier", "number_literal", "string_literal"}
        /\ tokens[i].len >= 2
        /\ tokens[i].line >= 2
        /\ tokens[i].column >= 1
        /\ \A k \in 1..tokens[i].len : Lexeme(tokens[i])[k] # "\n"

(* C8: on success, for a source with no newline inside a string literal,
   every returned token, the eof token included, has a column strictly less
   than the length of the source line its line numbers. *)
C8_ColumnsBelowLineLength ==
    (result = "returned" /\ NoNewlineInString) =>
        \A i \in 1..Len(returned) :
            returned[i].column < LineLength(returned[i].line)

(* C8 as amended: every token but the eof token has a column strictly less
   than the length of its source line; the eof token's column equals the
   length of its line, the last one. *)
C8_ColumnsWithinLine ==
    (result = "returned" /\ NoNewlineInString) =>
        /\ \A i \in NonEof :
              returned[i].column < LineLength(returned[i].line)
        /\ returned[Len(returned)].column
              = LineLength(returned[Len(returned)].line)

(* a success whose last line is not the first and ends in a token *)
C8_Witness ==
    /\ result = "returned" /\ NoNewlineInString
    /\ Len(returned) >= 3
    /\ returned[Len(returned)].line >= 2
    /\ returned[Len(returned) - 1].line = returned[Len(returned)].line
    /\ returned[Len(returned) - 1].column + returned[Len(returned) - 1].len
          = returned[Len(returned)].column

-----------------------------------------------------------------------------
(* Helpers of the statements about numbers and identifiers *)

AllDigits(s) == \A k \in 1..Len(s) : isdigit(s[k])

(* the source is three non-empty digit runs separated by two dots, the dots
   at the 1-based indexes d1 and d2 *)
ThreeRuns(d1, d2) ==
    /\ 1 < d1 /\ d1 + 1 < d2 /\ d2 < Len(src)
    /\ src[d1] = "." /\ src[d2] = "."
    /\ \A k \in 1..Len(src) : k \notin {d1, d2} => isdigit(src[k])

KindsAndLexemes(toks) == [i \in 1..Len(toks) |-> <<toks[i].type, Lexeme(toks[i])>>]

(* C9: a number_literal lexeme is a maximal run of digits, then, if a dot
   follows, that dot and a maximal, possibly empty, run of digits: it holds
   at most one dot.  So every source of three digit runs separated by two
   dots scans successfully to number_literal(first.second), dot,
   number_literal(third), eof. *)
C9_NumberStopsAtSecondDot ==
    /\ \A i \in 1..Len(tokens) :
          tokens[i].type = "number_literal" =>
              LET lx == Lexeme(tokens[i])
                  dots == {k \in 1..Len(lx) : lx[k] = "."}
              IN  /\ Cardinality(dots) <= 1
                  /\ isdigit(lx[1])
                  /\ \A k \in 1..Len(lx) : isdigit(lx[k]) \/ lx[k] = "."
    /\ \A d1 \in 1..Len(src) : \A d2 \in 1..Len(src) :
          (pc = "done" /\ ThreeRuns(d1, d2)) =>
              /\ result = "returned"
              /\ KindsAndLexemes(returned)
                   = << <<"number_literal", SubSeq(src, 1, d2 - 1)>>,
                        <<"dot", <<".">>>>,
                        <<"number_literal", SubSeq(src, d2 + 1, Len(src))>>,
                        <<"eof", << >>>> >>

(* C10: identifier-scanning, entered on an alphabetic character, takes the
   maximal run of alphanumeric characters and then resolves the kind:
   kw_var exactly for the lexeme `var`, kw_const exactly for `const`,
   identifier otherwise; `Var`, `variable`, `var1` and `constant` are
   identifier tokens with the full run as lexeme. *)
C10_KeywordsMatchWholeRun ==
    /\ \A i \in 1..Len(tokens) :
          LET t == tokens[i]
              lx == Lexeme(t)
          IN  t.type \in {"identifier", "kw_var", "kw_const"} =>
                /\ t.len >= 1
                /\ isalpha(lx[1])
                /\ \A k \in 1..Len(lx) : isalnum(lx[k])
                /\ t.off + t.len < Len(src) => ~isalnum(src[t.off + t.len + 1])
                /\ t.type = "kw_var" <=> lx = <<"v","a","r">>
                /\ t.type = "kw_const" <=> lx = <<"c","o","n","s","t">>
    /\ \A i \in 1..Len(tokens) :
          (tokens[i].type # "eof" /\ isalpha(src[tokens[i].off + 1]))
          => tokens[i].type \in {"identifier", "kw_var", "kw_const"}
    /\ ( /\ pc = "done"
         /\ src \in { <<"V","a","r">>, <<"v","a","r","i","a","b","l","e">>,
                      <<"v","a","r","1">>,
                      <<"c","o","n","s","t","a","n","t">> } )
       => /\ result = "returned"
          /\ KindsAndLexemes(returned) = << <<"identifier", src>>, <<"eof", << >>>> >>

(* both keywords and an identifier that starts with a keyword, in one scan *)
C10_Witness ==
    /\ pc = "done"
    /\ \E i \in 1..Len(tokens) : tokens[i].type = "kw_var"
    /\ \E i \in 1..Len(tokens) : tokens[i].type = "kw_const"
    /\ \E i \in 1..Len(tokens) :
          /\ tokens[i].type = "identifier"
          /\ tokens[i].len > 3
          /\ SubSeq(Lexeme(tokens[i]), 1, 3) = <<"v","a","r">>

-----------------------------------------------------------------------------
(* C11: a string_literal lexeme starts at an opening quote and ends at the
   first quote after it, both included, with no other quote inside; its
   length is at least 2, and the input `""` yields one string_literal token
   with the lexeme `""`, then eof. *)
C11_StringLexemeQuoteToQuote ==
    /\ \A i \in 1..Len(tokens) :
          LET t == tokens[i]
              lx == Lexeme(t)
          IN  t.type = "string_literal" =>
                /\ t.len >= 2
                /\ lx[1] = "\""
                /\ lx[t.len] = "\""
                /\ \A k \in 2..(t.len - 1) : lx[k] # "\""
                /\ ~InsideString(t.off)
    /\ (src = <<"\"", "\"">> /\ pc = "done") =>
          /\ result = "returned"
          /\ KindsAndLexemes(returned)
               = << <<"string_literal", <<"\"", "\"">>>>, <<"eof", << >>>> >>

(* a literal with text between its quotes, emitted after an earlier literal *)
C11_Witness ==
    \E i \in 1..Len(tokens) : \E j \in 1..Len(tokens) :
        /\ i < j
        /\ tokens[i].type = "string_literal"
        /\ tokens[j].type = "string_literal"
        /\ tokens[j].len >= 3

-----------------------------------------------------------------------------
(* Helpers of the statements about annotate *)

EmptySize == 512

(* the returned tokens whose line is n, in emission order *)
TokensOfLine(n) == SelectSeq(returned, LAMBDA t : t.line = n)

(* the marker row of the token toks[i]: a caret at its column, a bar at the
   column of every token before it, spaces elsewhere *)
ExpectedRow(toks, i) ==
    [k \in 1..(toks[i].column + 1) |->
        IF k = toks[i].column + 1 THEN "^"
        ELSE IF \E j \in 1..(i - 1) : toks[j].column + 1 = k THEN "|"
        ELSE " "]

(* the header of line n and its rows, from the last token to the first *)
ExpectedBlock(n) ==
    LET toks == TokensOfLine(n)
        cnt == Len(toks)
    IN  << [kind |-> "line", line_no |-> n,
            text |-> LineTextAt(LineStartOf(n))] >>
        \o [r \in 1..cnt |-> [kind |-> "row",
                              text |-> ExpectedRow(toks, cnt + 1 - r),
                              name |-> toks[cnt + 1 - r].type]]

RECURSIVE ExpectedOut(_)
ExpectedOut(n) == IF n = 0 THEN << >> ELSE ExpectedOut(n - 1) \o ExpectedBlock(n)

(* C12: for every source on which scan succeeds, the empty source and
   sources ending in a newline included, the bucketing of annotate makes no
   out-of-range access: every token's line lies between 1 and the number of
   lines the source splits into. *)
C12_BucketingInRange ==
    /\ aresult # "out_of_range"
    /\ apc = "bucket" =>
          \A i \in 1..Len(returned) :
              1 <= returned[i].line /\ returned[i].line <= Len(a_lines)

(* C14: for a source without newlines inside string literals, annotate
   prints for every source line with the tokens t0..t(n-1) exactly n marker
   rows, for idx = n-1 down to 0; the row of idx has the length
   column(t_idx)+1, a caret at column(t_idx), a bar at column(t_i) for every
   i < idx and a space elsewhere, with no mark of an earlier row or line. *)
C14_MarkerRows ==
    (aresult = "done" /\ NoNewlineInString) =>
        out = ExpectedOut(1 + CountBefore("\n", Len(src)))

(* a first line with a token, then a line with several tokens of which the
   first is not in the first column *)
C14_Witness ==
    /\ aresult = "done" /\ NoNewlineInString
    /\ Len(a_lines) >= 2
    /\ Len(a_lines[1].tokens) >= 1
    /\ Len(a_lines[2].tokens) >= 2
    /\ a_lines[2].tokens[1].column >= 1

(* C19: every access to the fixed-size buffers stays in bounds: in annotate
   the indexes written into the marker buffer (the columns of the tokens)
   and the filled and printed lengths are at most its 1024 characters, and
   the caret row of failure() takes at most 512 spaces. *)
C19_BuffersInBounds ==
    /\ aresult # "overflow"
    /\ \A n \in 1..Len(a_lines) :
          /\ Len(a_lines[n].line) <= BufSize
          /\ \A i \in 1..Len(a_lines[n].tokens) :
                a_lines[n].tokens[i].column + 1 <= BufSize
    /\ diag # << >> => diag.column <= EmptySize

-----------------------------------------------------------------------------
(* C13: a string_literal token whose lexeme holds a newline records the
   position of the end of the literal: the line of the closing quote and a
   column of that line at the closing quote, not the position of the opening
   quote. *)
C13_MultilineStringAtClosingQuote ==
    \A i \in 1..Len(tokens) :
        LET t == tokens[i]
            close == t.off + t.len - 1
        IN  ( /\ t.type = "string_literal"
              /\ \E k \in 1..t.len : Lexeme(t)[k] = "\n" )
            => /\ t.line = LineOf(close)
               /\ t.column \in ColOf(close)..(ColOf(close) + 1)
               /\ <<t.line, t.column>> # <<LineOf(t.off), ColOf(t.off)>>

(* C15: scan terminates: every iteration advances the cursor by exactly one
   character or ends the scan through failure(), so the cursor reaches
   end-of-input or the scan fails after at most length-of-input advances. *)
C15_AtMostLengthAdvances ==
    /\ pc # "idle" => (0 <= cursor /\ cursor <= Len(src))
    /\ result # "undefined"
    /\ pc = "done" => (cursor = Len(src) \/ result = "exit")

(* C16: in every state of a scan on a fresh scanner cur_line is 1 plus the
   number of newlines before the cursor, line_begin is the offset just after
   the last newline before the cursor (0 if none) and cur_column is cursor
   minus line_begin. *)
C16_PositionMatchesCursor ==
    pc # "idle" =>
        /\ cur_line = 1 + CountBefore("\n", cursor)
        /\ line_begin = LineStart(cursor)
        /\ cur_column = cursor - line_begin

(* in the middle of a lexeme on a line after the first *)
C16_Witness ==
    /\ pc \in {"string", "identifier", "number", "fraction"}
    /\ cur_line >= 2
    /\ cur_column >= 2
    /\ line_begin >= 1
    /\ cursor < Len(src)

(* C17: scan on a scanner that already completed a scan returns what a
   fresh scanner returns for that input: nothing of the earlier call's
   tokens, line or column is carried over. *)
C17_RescanLikeFresh ==
    (rescans = 1 /\ result = "returned" /\ src = fresh.src) =>
        returned = fresh.returned

(* C18: the assertions guarding the cursor hold in every state of a scan:
   the cursor stays within the source, and cur(), pos(), move_pos() and
   peek_next() are only called with the cursor before end-of-input. *)
C18_CursorAssertionsHold ==
    /\ pc # "idle" => cursor \in 0..Len(src)
    /\ result # "assert"
    /\ ~oob

====
